---- MODULE Spec2Model ----
(***************************************************************************)
(* A model of generate_fake_frames.py: one run of the script, from the     *)
(* parsed command line to the 'Done' log line.                             *)
(*                                                                         *)
(* Time is counted in ticks of 1/128 s, so that the sample spacings of the *)
(* state vector (1/16 s) and of the DQ vector (1/64 s) are whole numbers   *)
(* and interval bounds can fall between two samples.  Real-valued samples  *)
(* (the iDQ series) are modelled by integers.                              *)
(*                                                                         *)
(* Strings are sequences of one-character strings.  A file-name template   *)
(* is the sequence of its literal characters and replacement fields, the   *)
(* fields being the tokens "{start}" and "{duration}".                     *)
(*                                                                         *)
(* An optional command line value is None (<<>>) or Some(v) (<<v>>).       *)
(*                                                                         *)
(* The script imports numpy.random.default_rng (line 33), which exists     *)
(* only in NumPy >= 1.17, a Python 3 only release: the script runs under   *)
(* Python 3 or not at all.  The model is of the run under Python 3.        *)
(***************************************************************************)
EXTENDS Integers, Sequences, FiniteSets, TLC

VARIABLES
    args,               \* the parsed command line (line 103), fixed for the run
    pc,                 \* the position of the script
    error,              \* the exception that ended the run, "" when none
    strain,             \* the conditioned strain series (line 111)
    out_channel_names,  \* line 130
    out_timeseries,     \* line 131
    ts,                 \* the auxiliary series being synthesised (state_ts, dq_ts, idq_ts)
    idq_data,           \* the baseline of the iDQ series (line 190)
    k,                  \* index of the next override of the running loop
    s,                  \* the loop variable of the frame splitting loop
    segments,           \* the (s, d) pairs the frame splitting loop produced
    calls,              \* the calls of write_strain, in order
    files               \* the files on disk: path -> content

vars == <<args, pc, error, strain, out_channel_names, out_timeseries, ts, idq_data,
          k, s, segments, calls, files>>

----------------------------------------------------------------------------
(* Bounds of the model *)

MaxStart == 1
MaxStop == 4
MaxFrameDuration == 3
MaxGood == 2
MaxOverrides == 2

(* Program constants, in ticks of 1/128 s *)
state_dt == 8
dq_dt == 2
IdqPeak == 6

TicksPerSecond == 16 * state_dt

None == <<>>
Some(v) == <<v>>
IsNone(o) == o = <<>>
Val(o) == o[1]

SetMin(S) == CHOOSE x \in S : \A y \in S : x <= y
SetMax(S) == CHOOSE x \in S : \A y \in S : y <= x
Abs(x) == IF x < 0 THEN -x ELSE x

----------------------------------------------------------------------------
(* Strings *)

START == "{start}"
DURATION == "{duration}"

Digits == <<"0", "1", "2", "3", "4", "5", "6", "7", "8", "9">>
IsDigit(c) == \E i \in 1..10 : Digits[i] = c

RECURSIVE DecNat(_)
DecNat(n) ==
    IF n < 10 THEN <<Digits[n + 1]>>
    ELSE DecNat(n \div 10) \o <<Digits[(n % 10) + 1]>>

(* str(n) of a Python int, as '{}'.format(n) renders it *)
DecStr(n) == IF n < 0 THEN <<"-">> \o DecNat(-n) ELSE DecNat(n)

(* A faulty variant of format: the start field is rendered as the empty string *)
RECURSIVE format_drops_start(_, _, _)
format_drops_start(template, start, duration) ==
    IF template = <<>> THEN <<>>
    ELSE LET h == Head(template)
             r == format_drops_start(Tail(template), start, duration)
         IN  IF h = START THEN r
             ELSE IF h = DURATION THEN DecStr(duration) \o r
             ELSE <<h>> \o r

(* template.format(start=start, duration=duration) *)
RECURSIVE format(_, _, _)
format(template, start, duration) ==
    IF template = <<>> THEN <<>>
    ELSE LET h == Head(template)
             r == format(Tail(template), start, duration)
         IN  IF h = START THEN DecStr(start) \o r
             ELSE IF h = DURATION THEN DecStr(duration) \o r
             ELSE <<h>> \o r

endswith(str, suffix) ==
    /\ Len(suffix) <= Len(str)
    /\ SubSeq(str, Len(str) - Len(suffix) + 1, Len(str)) = suffix

GWF == <<".", "g", "w", "f">>
HDF == <<".", "h", "d", "f">>
H5 == <<".", "h", "5">>

----------------------------------------------------------------------------
(* Uniformly sampled series: sample i (from 1) is at epoch + (i-1)*delta_t *)

Series(data, delta_t, epoch) == [data |-> data, delta_t |-> delta_t, epoch |-> epoch]

sample_times(x) == [i \in 1..Len(x.data) |-> x.epoch + (i - 1) * x.delta_t]

(* np.flatnonzero: the indices where the mask holds *)
flatnonzero(mask) == {i \in DOMAIN mask : mask[i]}

(* x[lo:hi+1] = v, with lo and hi counted from 1 *)
SetSlice(x, lo, hi, v) ==
    [x EXCEPT !.data = [i \in 1..Len(x.data) |->
                            IF lo <= i /\ i <= hi THEN v ELSE x.data[i]]]

(* x[lo:hi+1] += v *)
AddSlice(x, lo, hi, v) ==
    [x EXCEPT !.data = [i \in 1..Len(x.data) |->
                            IF lo <= i /\ i <= hi THEN x.data[i] + v ELSE x.data[i]]]

(* x.time_slice(t0, t1): the samples with index in [(t0-epoch)/dt, (t1-epoch)/dt) *)
time_slice(x, t0, t1) ==
    LET i0 == (t0 - x.epoch) \div x.delta_t
        i1 == (t1 - x.epoch) \div x.delta_t
    IN  Series(SubSeq(x.data, i0 + 1, i1), x.delta_t, t0)

----------------------------------------------------------------------------
(* The command lines of the model *)

TplStd == <<"H", "-", START, "-", DURATION>> \o GWF
TplStartOnly == <<"H", START>> \o GWF
TplDurationOnly == <<"H", DURATION>> \o GWF
TplPlain == <<"o", "u", "t">> \o GWF
TplAdjacent == <<START, DURATION>> \o GWF
TplHdf == <<START, "-", DURATION>> \o HDF
TplH5 == <<START>> \o H5
TplTxt == <<START, "-", DURATION, ".", "t", "x", "t">>

Templates == {TplStd, TplStartOnly, TplDurationOnly, TplPlain, TplAdjacent,
              TplHdf, TplH5, TplTxt}

GatesFile == <<"g", "a", "t", "e", "s", ".", "t", "x", "t">>

(* The non-empty lists of at most n elements of S (argparse nargs='+') *)
ListsUpTo(S, n) == UNION {[1..m -> S] : m \in 1..n}

(* A run with no auxiliary channel, writing one second of strain to out.gwf *)
Defaults ==
    [output_file |-> TplPlain, output_gates_file |-> None,
     frame_duration |-> None, gps_start_time |-> 0, gps_end_time |-> 1,
     sample_rate |-> 1, channel_name |-> "H1:STRAIN",
     state_vector |-> None, state_vector_good |-> None, state_off_segments |-> None,
     dq_vector |-> None, dq_vector_good |-> None, dq_bad_times |-> None,
     dq_bad_pad |-> None,
     idq_channel |-> None, random_seed |-> None, idq_bad_times |-> None,
     idq_bad_pad |-> None]

(* Frame splitting: spans, frame durations (some invalid), templates *)
FrameDurations == {None} \cup {Some(d) : d \in -1..MaxFrameDuration}

SegmentingArgs ==
    {[Defaults EXCEPT !.output_file = tpl, !.output_gates_file = g,
                      !.frame_duration = fd,
                      !.gps_start_time = a, !.gps_end_time = b] :
        tpl \in Templates, g \in {None, Some(GatesFile)}, fd \in FrameDurations,
        a \in 0..MaxStart, b \in 1..MaxStop}

(* A span whose segments (2,19) and (21,9) both render as 219 when the two
   replacement fields are adjacent *)
AdjacentSpan == [start |-> 2, stop |-> 30, step |-> 19]

AdjacentArgs ==
    {[Defaults EXCEPT !.output_file = tpl, !.frame_duration = Some(AdjacentSpan.step),
                      !.gps_start_time = AdjacentSpan.start,
                      !.gps_end_time = AdjacentSpan.stop] :
        tpl \in {TplStd, TplAdjacent}}

(* State vector: good values and lists of off-intervals, in ticks; the
   series covers [0, 128) with samples at 0, 8, ..., 120 *)
OffIntervals == {<<-8, 0>>, <<0, 40>>, <<12, 40>>, <<12, 136>>, <<36, 60>>,
                 <<40, 12>>, <<40, 40>>, <<136, 200>>, <<-8, 136>>}
OffSegments == ListsUpTo(OffIntervals, MaxOverrides)

StateArgs ==
    {[Defaults EXCEPT !.state_vector = Some("H1:STATE"),
                      !.state_vector_good = Some(g),
                      !.state_off_segments = Some(l)] :
        g \in 0..MaxGood, l \in OffSegments}

(* DQ vector: the series covers [0, 128) with samples at 0, 2, ..., 126 *)
DqTimes == {-4, 12, 15, 300}
DqPads == {0, 3, 4}

DqArgs ==
    {[Defaults EXCEPT !.dq_vector = Some("H1:DQ"),
                      !.dq_vector_good = Some(g),
                      !.dq_bad_times = Some(l),
                      !.dq_bad_pad = Some(p)] :
        g \in 0..MaxGood, l \in ListsUpTo(DqTimes, MaxOverrides), p \in DqPads}

(* iDQ: strain at 4 Hz, samples at 0, 32, 64, 96 *)
IdqTimes == {-64, 32, 48, 500}
IdqPads == {0, 32, 40}
BaselineValues == {-2, -1}

IdqArgs ==
    {[Defaults EXCEPT !.sample_rate = 4,
                      !.idq_channel = Some("H1:IDQ"),
                      !.random_seed = sd,
                      !.idq_bad_times = Some(l),
                      !.idq_bad_pad = Some(p)] :
        sd \in {None, Some(0)}, l \in ListsUpTo(IdqTimes, MaxOverrides), p \in IdqPads}

(* Auxiliary channels enabled by name, with at most two of the
   sub-parameters absent *)
SubParams == {"state_vector_good", "state_off_segments", "dq_vector_good",
              "dq_bad_times", "dq_bad_pad", "random_seed", "idq_bad_times",
              "idq_bad_pad"}

Given(missing, name, v) == IF name \in missing THEN None ELSE Some(v)

EnabledArgs ==
    {[Defaults EXCEPT
        !.sample_rate = 4,
        !.output_file = tpl,
        !.output_gates_file = g,
        !.frame_duration = fd,
        !.state_vector = IF "state" \in on THEN Some("H1:STATE") ELSE None,
        !.state_vector_good = Given(missing, "state_vector_good", 2),
        !.state_off_segments = Given(missing, "state_off_segments", <<<<12, 40>>>>),
        !.dq_vector = IF "dq" \in on THEN Some("H1:DQ") ELSE None,
        !.dq_vector_good = Given(missing, "dq_vector_good", 1),
        !.dq_bad_times = Given(missing, "dq_bad_times", <<12>>),
        !.dq_bad_pad = Given(missing, "dq_bad_pad", 4),
        !.idq_channel = IF "idq" \in on THEN Some("H1:IDQ") ELSE None,
        !.random_seed = Given(missing, "random_seed", 0),
        !.idq_bad_times = Given(missing, "idq_bad_times", <<32>>),
        !.idq_bad_pad = Given(missing, "idq_bad_pad", 40)] :
        tpl \in {TplStd, TplHdf}, g \in {None, Some(GatesFile)},
        fd \in {None, Some(1)},
        on \in SUBSET {"state", "dq", "idq"},
        missing \in {m \in SUBSET SubParams : Cardinality(m) <= 2}}

ArgsSet == {a \in SegmentingArgs : a.gps_start_time < a.gps_end_time}
           \cup AdjacentArgs \cup StateArgs \cup DqArgs \cup IdqArgs \cup EnabledArgs

NoSeries == Series(<<>>, 1, 0)

Init ==
    /\ args \in ArgsSet
    /\ pc = "parse"
    /\ error = ""
    /\ strain = NoSeries
    /\ out_channel_names = <<>>
    /\ out_timeseries = <<>>
    /\ ts = NoSeries
    /\ idq_data = <<>>
    /\ k = 0
    /\ s = 0
    /\ segments = <<>>
    /\ calls = <<>>
    /\ files = <<>>

----------------------------------------------------------------------------
(* The run *)

Fail(e) == /\ pc' = "failed"
           /\ error' = e

(* Lines 103-106: parse_args, and the check of --frame-duration *)
ParseArgs ==
    /\ pc = "parse"
    /\ IF ~IsNone(args.frame_duration) /\ Val(args.frame_duration) <= 0
       THEN pc' = "exit" /\ error' = "usage"
       ELSE pc' = "condition" /\ error' = error
    /\ UNCHANGED <<args, strain, out_channel_names, out_timeseries, ts, idq_data,
                   k, s, segments, calls, files>>

(* Lines 111-112: pycbc.strain.from_cli returns the strain of the span
   [gps_start_time, gps_end_time) at the sample rate asked for, or raises *)
from_cli ==
    LET n == (args.gps_end_time - args.gps_start_time) * args.sample_rate
    IN  Series([i \in 1..n |-> i], TicksPerSecond \div args.sample_rate,
               args.gps_start_time * TicksPerSecond)

Condition ==
    /\ pc = "condition"
    /\ \/ /\ strain' = from_cli
          /\ pc' = "gates"
          /\ error' = error
       \/ /\ Fail("UpstreamError")
          /\ strain' = strain
    /\ UNCHANGED <<args, out_channel_names, out_timeseries, ts, idq_data,
                   k, s, segments, calls, files>>

(* Lines 115-120: the gate log.  Python 3 has no builtin named file: line
   117 raises NameError before any file is opened. *)
WriteGates ==
    /\ pc = "gates"
    /\ IF ~IsNone(args.output_gates_file)
       THEN Fail("NameError")
       ELSE pc' = "normalize" /\ error' = error
    /\ UNCHANGED <<args, strain, out_channel_names, out_timeseries, ts, idq_data,
                   k, s, segments, calls, files>>

(* Lines 123-131: precision, dynamic range factor (the sample values of the
   strain are opaque here), and the lists of output channels *)
Normalize ==
    /\ pc = "normalize"
    /\ out_channel_names' = <<args.channel_name>>
    /\ out_timeseries' = <<strain>>
    /\ pc' = "state"
    /\ UNCHANGED <<args, error, strain, ts, idq_data, k, s, segments, calls, files>>

duration(x) == Len(x.data) * x.delta_t

(* A faulty variant of state_off: the interval is mapped to indices by division and
   clamped into the series, so an interval outside it zeroes an end sample *)
state_off_clamped(x, start, end) ==
    LET n == Len(x.data)
        lo == ((start - x.epoch) + x.delta_t - 1) \div x.delta_t + 1
        hi == ((end - x.epoch) + x.delta_t - 1) \div x.delta_t
        clo == IF lo < 1 THEN 1 ELSE IF lo > n THEN n ELSE lo
        chi == IF hi < 1 THEN 1 ELSE IF hi > n THEN n ELSE hi
    IN  IF start < end THEN SetSlice(x, clo, chi, 0) ELSE x

(* A faulty variant of state_off: the end of the interval is included *)
state_off_closed(x, start, end) ==
    LET times == sample_times(x)
        fnz == flatnonzero([i \in DOMAIN times |->
                               times[i] >= start /\ times[i] <= end])
    IN  IF fnz # {} THEN SetSlice(x, SetMin(fnz), SetMax(fnz), 0) ELSE x

(* Lines 147-150: one off-interval [start, end) applied to the state vector *)
state_off(x, start, end) ==
    LET times == sample_times(x)
        fnz == flatnonzero([i \in DOMAIN times |->
                               times[i] >= start /\ times[i] < end])
    IN  IF fnz # {} THEN SetSlice(x, SetMin(fnz), SetMax(fnz), 0) ELSE x

(* Lines 164-169: the bad value of the DQ vector *)
dq_bad_value(good) == IF good = 0 THEN 1 ELSE 0

(* A faulty variant of dq_bad_epoch: the comparison is not strict *)
dq_bad_epoch_closed(x, dqt, pad, dq_bad) ==
    LET times == sample_times(x)
        fnz == flatnonzero([i \in DOMAIN times |-> Abs(times[i] - dqt) <= pad])
    IN  IF fnz # {} THEN SetSlice(x, SetMin(fnz), SetMax(fnz), dq_bad) ELSE x

(* Lines 176-178: one bad epoch applied to the DQ vector *)
dq_bad_epoch(x, dqt, pad, dq_bad) ==
    LET times == sample_times(x)
        fnz == flatnonzero([i \in DOMAIN times |-> Abs(times[i] - dqt) < pad])
    IN  IF fnz # {} THEN SetSlice(x, SetMin(fnz), SetMax(fnz), dq_bad) ELSE x

(* A faulty variant of idq_bad_epoch: the peak overwrites instead of adding *)
idq_bad_epoch_overwrite(x, idqt, pad) ==
    LET times == sample_times(x)
        fnz == flatnonzero([i \in DOMAIN times |-> Abs(times[i] - idqt) < pad])
    IN  IF fnz # {}
        THEN [x EXCEPT !.data = [i \in 1..Len(x.data) |->
                 IF SetMin(fnz) <= i /\ i <= SetMax(fnz)
                 THEN idq_data[i] + IdqPeak ELSE x.data[i]]]
        ELSE x

(* Lines 197-199: one bad epoch applied to the iDQ series *)
idq_bad_epoch(x, idqt, pad) ==
    LET times == sample_times(x)
        fnz == flatnonzero([i \in DOMAIN times |-> Abs(times[i] - idqt) < pad])
    IN  IF fnz # {} THEN AddSlice(x, SetMin(fnz), SetMax(fnz), IdqPeak) ELSE x

(* Lines 135-143: the state vector and its baseline.  The samples are
   uint32; the good values of the model are in 0..MaxGood, which uint32
   holds exactly.  state_data[:] = None raises TypeError. *)
StateVector ==
    /\ pc = "state"
    /\ IF IsNone(args.state_vector)
       THEN pc' = "dq" /\ UNCHANGED <<error, ts, k>>
       ELSE IF IsNone(args.state_vector_good)
       THEN Fail("TypeError") /\ UNCHANGED <<ts, k>>
       ELSE /\ ts' = Series([i \in 1..(duration(strain) \div state_dt) |->
                                Val(args.state_vector_good)],
                            state_dt, strain.epoch)
            /\ k' = 1
            /\ pc' = "state_loop"
            /\ error' = error
    /\ UNCHANGED <<args, strain, out_channel_names, out_timeseries, idq_data,
                   s, segments, calls, files>>

(* Lines 145-153: the loop over the off-intervals, one iteration a step,
   and the append after it.  Iterating over None raises TypeError. *)
StateOff ==
    /\ pc = "state_loop"
    /\ IF IsNone(args.state_off_segments)
       THEN Fail("TypeError")
            /\ UNCHANGED <<ts, k, out_channel_names, out_timeseries>>
       ELSE IF k <= Len(Val(args.state_off_segments))
       THEN /\ ts' = state_off(ts, Val(args.state_off_segments)[k][1],
                               Val(args.state_off_segments)[k][2])
            /\ k' = k + 1
            /\ UNCHANGED <<pc, error, out_channel_names, out_timeseries>>
       ELSE /\ out_channel_names' = Append(out_channel_names, Val(args.state_vector))
            /\ out_timeseries' = Append(out_timeseries, ts)
            /\ pc' = "dq"
            /\ UNCHANGED <<error, ts, k>>
    /\ UNCHANGED <<args, strain, idq_data, s, segments, calls, files>>

(* Lines 157-173: the DQ vector and its baseline (uint32, as above) *)
DqVector ==
    /\ pc = "dq"
    /\ IF IsNone(args.dq_vector)
       THEN pc' = "idq" /\ UNCHANGED <<error, ts, k>>
       ELSE IF IsNone(args.dq_vector_good)
       THEN Fail("TypeError") /\ UNCHANGED <<ts, k>>
       ELSE /\ ts' = Series([i \in 1..(duration(strain) \div dq_dt) |->
                                Val(args.dq_vector_good)],
                            dq_dt, strain.epoch)
            /\ k' = 1
            /\ pc' = "dq_loop"
            /\ error' = error
    /\ UNCHANGED <<args, strain, out_channel_names, out_timeseries, idq_data,
                   s, segments, calls, files>>

(* Lines 175-181: the loop over the bad epochs and the append after it.
   Iterating over None, and comparing with a None pad, raise TypeError. *)
DqBad ==
    /\ pc = "dq_loop"
    /\ IF IsNone(args.dq_bad_times)
       THEN Fail("TypeError")
            /\ UNCHANGED <<ts, k, out_channel_names, out_timeseries>>
       ELSE IF k <= Len(Val(args.dq_bad_times))
       THEN IF IsNone(args.dq_bad_pad)
            THEN Fail("TypeError")
                 /\ UNCHANGED <<ts, k, out_channel_names, out_timeseries>>
            ELSE /\ ts' = dq_bad_epoch(ts, Val(args.dq_bad_times)[k],
                                       Val(args.dq_bad_pad),
                                       dq_bad_value(Val(args.dq_vector_good)))
                 /\ k' = k + 1
                 /\ UNCHANGED <<pc, error, out_channel_names, out_timeseries>>
       ELSE /\ out_channel_names' = Append(out_channel_names, Val(args.dq_vector))
            /\ out_timeseries' = Append(out_timeseries, ts)
            /\ pc' = "idq"
            /\ UNCHANGED <<error, ts, k>>
    /\ UNCHANGED <<args, strain, idq_data, s, segments, calls, files>>

(* Lines 185-194: the iDQ series.  default_rng(None) seeds the generator
   from the operating system and raises nothing; the standard-normal
   samples, less 1, are any values. *)
IdqChannel ==
    /\ pc = "idq"
    /\ IF IsNone(args.idq_channel)
       THEN pc' = "output" /\ UNCHANGED <<ts, k, idq_data>>
       ELSE /\ \E b \in [1..Len(strain.data) -> BaselineValues] :
                 /\ idq_data' = b
                 /\ ts' = Series(b, strain.delta_t, strain.epoch)
            /\ k' = 1
            /\ pc' = "idq_loop"
    /\ UNCHANGED <<args, error, strain, out_channel_names, out_timeseries,
                   s, segments, calls, files>>

(* Lines 196-202: the loop over the iDQ peaks and the append after it *)
IdqBad ==
    /\ pc = "idq_loop"
    /\ IF IsNone(args.idq_bad_times)
       THEN Fail("TypeError")
            /\ UNCHANGED <<ts, k, out_channel_names, out_timeseries>>
       ELSE IF k <= Len(Val(args.idq_bad_times))
       THEN IF IsNone(args.idq_bad_pad)
            THEN Fail("TypeError")
                 /\ UNCHANGED <<ts, k, out_channel_names, out_timeseries>>
            ELSE /\ ts' = idq_bad_epoch(ts, Val(args.idq_bad_times)[k],
                                        Val(args.idq_bad_pad))
                 /\ k' = k + 1
                 /\ UNCHANGED <<pc, error, out_channel_names, out_timeseries>>
       ELSE /\ out_channel_names' = Append(out_channel_names, Val(args.idq_channel))
            /\ out_timeseries' = Append(out_timeseries, ts)
            /\ pc' = "output"
            /\ UNCHANGED <<error, ts, k>>
    /\ UNCHANGED <<args, strain, idq_data, s, segments, calls, files>>

----------------------------------------------------------------------------
(* Output *)

Put(f, path, content) ==
    [p \in DOMAIN f \cup {path} |-> IF p = path THEN content ELSE f[p]]

Written(channel, data) ==
    [format |-> "gwf", channel |-> channel, data |-> data, complete |-> TRUE]

Partial == [format |-> "gwf", channel |-> <<>>, data |-> <<>>, complete |-> FALSE]

Call(file_name, writer, result) ==
    [file_name |-> file_name, writer |-> writer, result |-> result]

(* Lines 38-46: write_strain, called with the list of channel names and the
   list of series.  pycbc.frame.write_frame writes the frame file or fails,
   leaving the file untouched or incomplete; a list has no method save, so
   line 44 raises AttributeError. *)
write_strain(file_name, channel, data) ==
    \/ /\ endswith(file_name, GWF)
       /\ files' = Put(files, file_name, Written(channel, data))
       /\ calls' = Append(calls, Call(file_name, "write_frame", "ok"))
       /\ error' = error
    \/ /\ endswith(file_name, GWF)
       /\ \/ files' = files
          \/ files' = Put(files, file_name, Partial)
       /\ calls' = Append(calls, Call(file_name, "write_frame", "IOError"))
       /\ error' = "IOError"
    \/ /\ ~endswith(file_name, GWF)
       /\ endswith(file_name, HDF) \/ endswith(file_name, H5)
       /\ files' = files
       /\ calls' = Append(calls, Call(file_name, "none", "AttributeError"))
       /\ error' = "AttributeError"
    \/ /\ ~endswith(file_name, GWF)
       /\ ~endswith(file_name, HDF)
       /\ ~endswith(file_name, H5)
       /\ files' = files
       /\ calls' = Append(calls, Call(file_name, "none", "ValueError"))
       /\ error' = "ValueError"

Splitting == ~IsNone(args.frame_duration) /\ Val(args.frame_duration) # 0

(* Lines 215-218: no frame splitting, one write of the whole span *)
WriteWhole ==
    /\ pc = "output"
    /\ ~Splitting
    /\ write_strain(args.output_file, out_channel_names, out_timeseries)
    /\ pc' = IF error' = "" THEN "done" ELSE "failed"
    /\ UNCHANGED <<args, strain, out_channel_names, out_timeseries, ts, idq_data,
                   k, s, segments>>

(* Lines 204-210: the frame splitting loop starts at gps_start_time *)
StartFrames ==
    /\ pc = "output"
    /\ Splitting
    /\ s' = args.gps_start_time
    /\ pc' = "frame_loop"
    /\ UNCHANGED <<args, error, strain, out_channel_names, out_timeseries, ts,
                   idq_data, k, segments, calls, files>>

(* Line 211: the end of the segment that starts at s0 *)
segment_end(s0, stop, step) == IF s0 + step < stop THEN s0 + step ELSE stop

(* A faulty variant of segment_duration: the last frame is given the full duration *)
segment_duration_nominal(s0, stop, step) == step

(* Line 213: the duration of the segment that starts at s0 *)
segment_duration(s0, stop, step) == IF s0 + step < stop THEN step ELSE stop - s0

(* A faulty variant of segment_path: every segment is written to the template's
   rendering of the first start time *)
segment_path_first(s0, d) == format(args.output_file, args.gps_start_time, d)

(* Lines 212-213: the file name of the segment (s0, d) *)
segment_path(s0, d) == format(args.output_file, s0, d)

(* Lines 210-214 and 218: one iteration of range(start, stop, step), or the
   end of the loop and the 'Done' line *)
FrameStep ==
    /\ pc = "frame_loop"
    /\ IF s < args.gps_end_time
       THEN LET stop == args.gps_end_time
                step == Val(args.frame_duration)
                e == segment_end(s, stop, step)
                d == segment_duration(s, stop, step)
                out_ts == [i \in 1..Len(out_timeseries) |->
                              time_slice(out_timeseries[i], s * TicksPerSecond,
                                         e * TicksPerSecond)]
            IN  /\ write_strain(segment_path(s, d), out_channel_names, out_ts)
                /\ segments' = Append(segments, <<s, d>>)
                /\ IF error' = ""
                   THEN s' = s + step /\ pc' = pc
                   ELSE s' = s /\ pc' = "failed"
       ELSE /\ pc' = "done"
            /\ UNCHANGED <<error, s, segments, calls, files>>
    /\ UNCHANGED <<args, strain, out_channel_names, out_timeseries, ts, idq_data, k>>

Next ==
    \/ ParseArgs
    \/ Condition
    \/ WriteGates
    \/ Normalize
    \/ StateVector
    \/ StateOff
    \/ DqVector
    \/ DqBad
    \/ IdqChannel
    \/ IdqBad
    \/ WriteWhole
    \/ StartFrames
    \/ FrameStep

Spec == Init /\ [][Next]_vars

----------------------------------------------------------------------------
(* Properties *)

Last(q) == q[Len(q)]

RECURSIVE SumDurations(_)
SumDurations(q) == IF q = <<>> THEN 0 ELSE Head(q)[2] + SumDurations(Tail(q))

(* C1: with frame splitting active, the segments (s, d) the output loop
   produces start at gps_start_time, each next one starts at the previous
   s + d, every d is in 1..frame_duration, only a segment that ends at
   gps_end_time may be shorter than frame_duration, and once the loop has
   completed the last segment ends at gps_end_time and the durations sum to
   gps_end_time - gps_start_time. *)
C1_SegmentsCoverSpan ==
    Splitting =>
        LET n == Len(segments)
            step == Val(args.frame_duration)
        IN  /\ n >= 1 => segments[1][1] = args.gps_start_time
            /\ \A i \in 1..n :
                  /\ 0 < segments[i][2]
                  /\ segments[i][2] <= step
                  /\ segments[i][1] + segments[i][2] <= args.gps_end_time
                  /\ segments[i][2] < step =>
                        segments[i][1] + segments[i][2] = args.gps_end_time
            /\ \A i \in 1..(n - 1) :
                  /\ segments[i + 1][1] = segments[i][1] + segments[i][2]
                  /\ segments[i][2] = step
            /\ pc = "done" =>
                  /\ n >= 1
                  /\ Last(segments)[1] + Last(segments)[2] = args.gps_end_time
                  /\ SumDurations(segments) = args.gps_end_time - args.gps_start_time

(* A completed run of several segments whose last one is cut short *)
C1_Witness ==
    /\ Splitting
    /\ pc = "done"
    /\ Len(segments) >= 2
    /\ Last(segments)[2] < Val(args.frame_duration)

IsField(tok) == tok = START \/ tok = DURATION

(* The template has a start field, and every field of it is directly
   followed by a literal character that is no digit, or ends the name *)
FieldsDelimited(template) ==
    /\ \E i \in 1..Len(template) : template[i] = START
    /\ \A i \in 1..Len(template) :
          IsField(template[i]) /\ i < Len(template) =>
              ~IsField(template[i + 1]) /\ ~IsDigit(template[i + 1])

DistinctPaths == \A i, j \in 1..Len(calls) : i # j => calls[i].file_name # calls[j].file_name

OncePerSegment ==
    /\ Len(calls) = Len(segments)
    /\ \A i \in 1..Len(calls) :
          calls[i].file_name = format(args.output_file, segments[i][1], segments[i][2])

(* C2, as claimed: with frame splitting active, the destination is
   resolved once per segment and no two segments of a run resolve to the
   same path. *)
C2_Original == Splitting => OncePerSegment /\ DistinctPaths

(* C2, amended: with frame splitting active, the destination is resolved
   once per segment, and no two segments of a run resolve to the same path
   provided the template contains the start field and each of its fields is
   directly followed by a non-digit character or ends the name. *)
C2_DistinctPathsDelimited ==
    Splitting =>
        /\ OncePerSegment
        /\ FieldsDelimited(args.output_file) => DistinctPaths

(* Several segments written under a delimited template *)
C2_Witness ==
    /\ Splitting
    /\ FieldsDelimited(args.output_file)
    /\ pc = "done"
    /\ Len(calls) >= 3

(* The places of the auxiliary series in out_timeseries, after the strain *)
StateIndex == Len(<<args.channel_name>>) + 1
DqIndex == StateIndex + (IF IsNone(args.state_vector) THEN 0 ELSE 1)
IdqIndex == DqIndex + (IF IsNone(args.dq_vector) THEN 0 ELSE 1)

StateDone == ~IsNone(args.state_vector) /\ Len(out_timeseries) >= StateIndex
DqDone == ~IsNone(args.dq_vector) /\ Len(out_timeseries) >= DqIndex
IdqDone == ~IsNone(args.idq_channel) /\ Len(out_timeseries) >= IdqIndex

InOff(t, l) == \E j \in 1..Len(l) : l[j][1] <= t /\ t < l[j][2]

(* C3: once all off-intervals [start, end) have been applied, every
   state-vector sample whose time is in at least one of them is 0 and every
   other sample is the configured good value. *)
C3_StateVector ==
    StateDone =>
        LET x == out_timeseries[StateIndex]
            l == Val(args.state_off_segments)
        IN  /\ Len(x.data) * state_dt = duration(strain)
            /\ \A i \in 1..Len(x.data) :
                  x.data[i] = IF InOff(sample_times(x)[i], l) THEN 0
                              ELSE Val(args.state_vector_good)

(* Two overlapping off-intervals applied to a vector whose good value is
   not 0: a sample in both is 0, another is left good *)
C3_Witness ==
    /\ StateDone
    /\ Val(args.state_vector_good) = 2
    /\ LET x == out_timeseries[StateIndex]
           l == Val(args.state_off_segments)
       IN  /\ Len(l) = 2
           /\ \E i \in 1..Len(x.data) :
                 /\ InOff(sample_times(x)[i], <<l[1]>>)
                 /\ InOff(sample_times(x)[i], <<l[2]>>)
                 /\ x.data[i] = 0
           /\ \E i \in 1..Len(x.data) : x.data[i] = 2

DqBadExpected == IF Val(args.dq_vector_good) = 0 THEN 1 ELSE 0

InHalfOpenDq(t) ==
    \E j \in 1..Len(Val(args.dq_bad_times)) :
        /\ Val(args.dq_bad_times)[j] - Val(args.dq_bad_pad) <= t
        /\ t < Val(args.dq_bad_times)[j] + Val(args.dq_bad_pad)

InOpenDq(t) ==
    \E j \in 1..Len(Val(args.dq_bad_times)) :
        Abs(t - Val(args.dq_bad_times)[j]) < Val(args.dq_bad_pad)

(* C4, as claimed: the bad value is 1 for good value 0 and 0 otherwise;
   once all bad epochs have been applied, every DQ sample whose time is in
   [center - pad, center + pad) for some center is the bad value and every
   other sample is the good value. *)
C4_Original ==
    DqDone =>
        LET x == out_timeseries[DqIndex]
        IN  \A i \in 1..Len(x.data) :
               x.data[i] = IF InHalfOpenDq(sample_times(x)[i]) THEN DqBadExpected
                           ELSE Val(args.dq_vector_good)

(* C4, amended: the same, with the window of a center being the open
   interval (center - pad, center + pad), that is |t - center| < pad: a
   sample at exactly center - pad keeps the good value. *)
C4_DqVectorOpenWindow ==
    DqDone =>
        LET x == out_timeseries[DqIndex]
        IN  /\ Len(x.data) * dq_dt = duration(strain)
            /\ \A i \in 1..Len(x.data) :
                  x.data[i] = IF InOpenDq(sample_times(x)[i]) THEN DqBadExpected
                              ELSE Val(args.dq_vector_good)

(* A DQ vector of good value 0 with a bad sample, and a sample at exactly
   center - pad that is still good *)
C4_Witness ==
    /\ DqDone
    /\ Val(args.dq_vector_good) = 0
    /\ LET x == out_timeseries[DqIndex]
           l == Val(args.dq_bad_times)
       IN  /\ \E i \in 1..Len(x.data) : x.data[i] = 1
           /\ \E i \in 1..Len(x.data) : \E j \in 1..Len(l) :
                 /\ sample_times(x)[i] = l[j] - Val(args.dq_bad_pad)
                 /\ x.data[i] = 0

Covering(t) ==
    {j \in 1..Len(Val(args.idq_bad_times)) :
        Abs(t - Val(args.idq_bad_times)[j]) < Val(args.idq_bad_pad)}

(* C5: once all iDQ peaks have been applied, every sample at time t is its
   baseline plus 6 times the number of centers c, counted with repetition,
   with |t - c| < pad. *)
C5_IdqStacks ==
    IdqDone =>
        LET x == out_timeseries[IdqIndex]
        IN  /\ Len(x.data) = Len(strain.data)
            /\ \A i \in 1..Len(x.data) :
                  x.data[i] = idq_data[i] + 6 * Cardinality(Covering(sample_times(x)[i]))

(* A sample under two peaks is at baseline + 12, another is at baseline *)
C5_Witness ==
    /\ IdqDone
    /\ LET x == out_timeseries[IdqIndex]
       IN  /\ \E i \in 1..Len(x.data) :
                 /\ Cardinality(Covering(sample_times(x)[i])) = 2
                 /\ x.data[i] = idq_data[i] + 12
           /\ \E i \in 1..Len(x.data) :
                 /\ Covering(sample_times(x)[i]) = {}
                 /\ x.data[i] = idq_data[i]

(* An auxiliary channel is enabled by name and lacks a sub-parameter *)
MissingSubParameter ==
    \/ /\ ~IsNone(args.state_vector)
       /\ IsNone(args.state_vector_good) \/ IsNone(args.state_off_segments)
    \/ /\ ~IsNone(args.dq_vector)
       /\ \/ IsNone(args.dq_vector_good)
          \/ IsNone(args.dq_bad_times)
          \/ IsNone(args.dq_bad_pad)
    \/ /\ ~IsNone(args.idq_channel)
       /\ \/ IsNone(args.random_seed)
          \/ IsNone(args.idq_bad_times)
          \/ IsNone(args.idq_bad_pad)

(* C6: a run with an auxiliary channel enabled by name and a required
   sub-parameter absent (good value, off-intervals, bad-epoch centers, pad
   or random seed) never completes and never writes anything: no channel
   output file, no segment file, no gate-log file. *)
C6_FailFast ==
    MissingSubParameter =>
        /\ pc # "done"
        /\ calls = <<>>
        /\ DOMAIN files = {}

GateLogWritten ==
    /\ Val(args.output_gates_file) \in DOMAIN files
    /\ files[Val(args.output_gates_file)].complete

PastGateLog ==
    /\ pc \notin {"parse", "exit", "condition", "gates"}
    /\ ~(pc = "failed" /\ error = "UpstreamError")

(* C7: in a run where a gate-log destination is requested, the gate log is
   written and closed once the gate-log step is over, and so before any
   channel output: no call of write_strain happens before it is written. *)
C7_GateLogFirst ==
    ~IsNone(args.output_gates_file) =>
        /\ PastGateLog => GateLogWritten
        /\ calls # <<>> => GateLogWritten

(* The content of the file of segment i: each series cut to the segment *)
SegmentContent(i) ==
    Written(out_channel_names,
            [j \in 1..Len(out_timeseries) |->
                time_slice(out_timeseries[j], segments[i][1] * TicksPerSecond,
                           (segments[i][1] + segments[i][2]) * TicksPerSecond)])

(* A failed write is the last call, and the run has ended in failure *)
AbortsAtFailure ==
    /\ \A i \in 1..(Len(calls) - 1) : calls[i].result = "ok"
    /\ (calls # <<>> /\ Last(calls).result # "ok") =>
          /\ pc = "failed"
          /\ error = Last(calls).result

EarlierSegmentsIntact ==
    \A i \in 1..(Len(calls) - 1) :
        /\ calls[i].file_name \in DOMAIN files
        /\ files[calls[i].file_name] = SegmentContent(i)

SegmentWriteFailed == Splitting /\ calls # <<>> /\ Last(calls).result # "ok"

(* C8, as claimed: when the write of segment N fails, the run aborts at
   once (no later segment is written, 'Done' is never reached) and the
   files of segments 1..N-1 are unchanged. *)
C8_Original ==
    Splitting =>
        /\ AbortsAtFailure
        /\ SegmentWriteFailed => EarlierSegmentsIntact

(* C8, amended: the same, the files of segments 1..N-1 being unchanged
   provided the template contains the start field and each of its fields is
   directly followed by a non-digit character or ends the name (so that the
   segments' paths differ). *)
C8_AbortKeepsEarlierSegments ==
    Splitting =>
        /\ AbortsAtFailure
        /\ (SegmentWriteFailed /\ FieldsDelimited(args.output_file)) =>
              EarlierSegmentsIntact

(* The write of the third segment fails after two segments were written *)
C8_Witness ==
    /\ SegmentWriteFailed
    /\ FieldsDelimited(args.output_file)
    /\ Len(calls) = 3
    /\ pc = "failed"
    /\ Cardinality(DOMAIN files) >= 2

(* C9: write_strain raises the unsupported-format error and calls no writer
   for a name that ends in none of .gwf, .hdf, .h5; for a name that does it
   calls the writer of that format, once: the frame writer for .gwf, the
   hierarchical save for .hdf and .h5. *)
C9_FormatSelection ==
    \A i \in 1..Len(calls) :
        LET name == calls[i].file_name
        IN  IF endswith(name, GWF)
            THEN calls[i].writer = "write_frame"
            ELSE IF endswith(name, HDF) \/ endswith(name, H5)
            THEN calls[i].writer = "save"
            ELSE calls[i].writer = "none" /\ calls[i].result = "ValueError"

InThisOff(t) ==
    LET seg == Val(args.state_off_segments)[k] IN seg[1] <= t /\ t < seg[2]
InThisDq(t) == Abs(t - Val(args.dq_bad_times)[k]) < Val(args.dq_bad_pad)
InThisIdq(t) == Abs(t - Val(args.idq_bad_times)[k]) < Val(args.idq_bad_pad)

StateOverrideIsNoOp ==
    /\ pc = "state_loop"
    /\ ~IsNone(args.state_off_segments)
    /\ k <= Len(Val(args.state_off_segments))
    /\ \A i \in 1..Len(ts.data) : ~InThisOff(sample_times(ts)[i])

DqOverrideIsNoOp ==
    /\ pc = "dq_loop"
    /\ ~IsNone(args.dq_bad_times)
    /\ ~IsNone(args.dq_bad_pad)
    /\ k <= Len(Val(args.dq_bad_times))
    /\ \A i \in 1..Len(ts.data) : ~InThisDq(sample_times(ts)[i])

IdqOverrideIsNoOp ==
    /\ pc = "idq_loop"
    /\ ~IsNone(args.idq_bad_times)
    /\ ~IsNone(args.idq_bad_pad)
    /\ k <= Len(Val(args.idq_bad_times))
    /\ \A i \in 1..Len(ts.data) : ~InThisIdq(sample_times(ts)[i])

(* C10: for each of the three auxiliary channels, applying an override
   whose interval covers no sample of the series (it lies outside the
   series, or is empty) raises no error and leaves every sample unchanged. *)
C10_EmptyOverrideIsNoOp ==
    [][(StateOverrideIsNoOp \/ DqOverrideIsNoOp \/ IdqOverrideIsNoOp) =>
          (ts' = ts /\ error' = "" /\ pc' = pc /\ k' = k + 1)]_vars

(* The state-vector loop has just applied an off-interval that lies before
   the series, to a vector whose good value is not 0 *)
C10_Witness ==
    /\ pc = "state_loop"
    /\ k = 2
    /\ Val(args.state_vector_good) # 0
    /\ Val(args.state_off_segments)[1][1] < Val(args.state_off_segments)[1][2]
    /\ Val(args.state_off_segments)[1][2] <= strain.epoch
    /\ \A i \in 1..Len(ts.data) : ts.data[i] = Val(args.state_vector_good)

====
